---- MODULE Spec2Model ----
(***************************************************************************)
(* Model of the three scripts of bsky-twitter-to-memos:                    *)
(*   delete_memos_duplicates.py  (script = "dup")                          *)
(*   delete_old_memos.py         (script = "old")                          *)
(*   x_scraper_fast_scrolling.py (script = "scraper", create_memo)         *)
(* One run of one script is one behaviour.  The notes service is the       *)
(* environment: every response it gives is a nondeterministic choice.      *)
(***************************************************************************)
EXTENDS Integers, Sequences, FiniteSets, TLC

(* ------------------------------ bounds -------------------------------- *)
\* Records the notes service holds at most.
MaxMemos == 3
\* Pages the notes service serves at most (the last one carries no token).
MaxPages == 2
\* Images attached to one scraped post at most.
MaxImages == 2
MaxScrolls == 2
MaxVisible == 2

(* ------------------------- timestamps as data ------------------------- *)
\* A timestamp field of a memo (or the CUTOFF_DATE setting).  kind is
\*   "absent" the key is not in the JSON object
\*   "empty"  the empty string
\*   "bad"    a string datetime.fromisoformat rejects ("not-a-date")
\*   "iso"    "2024-01-0<d>T0<h>:00:00Z" when aware, the same without
\*            the Z suffix when not
\*   "num"    a Unix epoch number denoting day d, hour h
Ts(kind, d, h, aware) == [kind |-> kind, d |-> d, h |-> h, aware |-> aware]
Absent == Ts("absent", 0, 0, FALSE)
Empty == Ts("empty", 0, 0, FALSE)
Bad == Ts("bad", 0, 0, FALSE)
IsoZ(d, h) == Ts("iso", d, h, TRUE)
IsoNaive(d, h) == Ts("iso", d, h, FALSE)
Num(d, h) == Ts("num", d, h, FALSE)

\* Python truthiness of a value read with dict.get: None and "" are falsy.
Truthy(v) == v.kind \notin {"absent", "empty"}

\* datetime.fromisoformat(s.replace("Z", "+00:00")): raises on a string
\* that is no ISO timestamp; the result is offset-aware when the string
\* carried a Z (or an offset) and naive otherwise.
fromisoformat(s) ==
  IF s.kind = "iso"
    THEN [ok |-> TRUE, d |-> s.d, h |-> s.h, aware |-> s.aware]
    ELSE [ok |-> FALSE, d |-> 0, h |-> 0, aware |-> FALSE]

\* datetime.fromtimestamp(n): a naive datetime (local time; the machine's
\* zone is taken to be UTC).
fromtimestamp(n) == [ok |-> TRUE, d |-> n.d, h |-> n.h, aware |-> FALSE]

\* a < b on two datetimes: raises TypeError when exactly one is aware.
DtComparable(a, b) == a.aware = b.aware
DtLess(a, b) == a.d < b.d \/ (a.d = b.d /\ a.h < b.h)

\* dt.strftime('%Y-%m-%d')
DateNames == <<"2024-01-01", "2024-01-02", "2024-01-03">>
strftime(dt) == DateNames[dt.d]

\* hashlib.md5(content.encode()).hexdigest()
md5(content) ==
  CASE content = "hi" -> "49f68a5c8493ec2c0bf489821c21fc3b"
    [] content = "bye" -> "bfa99df33b137bc8fb5f5407d7e58da8"
    [] OTHER -> "d41d8cd98f00b204e9800998ecf8427e"

\* s1 <= s2 on the strings the timestamp values stand for: "" sorts first,
\* the ISO strings (same layout, digits) sort by day and hour, a naive
\* string (a proper prefix) before its Z form, and "not-a-date" (a letter)
\* after every ISO string.
StrRank(s) ==
  CASE s.kind \in {"absent", "empty"} -> <<0, 0, 0, 0>>
    [] s.kind = "iso" -> <<1, s.d, s.h, IF s.aware THEN 1 ELSE 0>>
    [] OTHER -> <<2, 0, 0, 0>>
RECURSIVE LexLeq(_, _)
LexLeq(a, b) ==
  IF a = <<>> THEN TRUE
  ELSE IF Head(a) # Head(b) THEN Head(a) < Head(b)
  ELSE LexLeq(Tail(a), Tail(b))
StrLeq(s1, s2) == LexLeq(StrRank(s1), StrRank(s2))

(* ------------------------------ memos ---------------------------------- *)
Memo(name, content, createTime, createdTs) ==
  [name |-> name, content |-> content,
   createTime |-> createTime, createdTs |-> createdTs]

\* What a record of the duplicate cleaner's input can look like
\* (content, createTime); createdTs is not read by that script.
DupKinds ==
  { <<"hi", IsoZ(1, 0)>>, <<"hi", IsoZ(1, 1)>>, <<"hi", IsoZ(2, 0)>>,
    <<"hi", Absent>>, <<"bye", IsoZ(1, 0)>>, <<"", IsoZ(1, 0)>> }

\* What a record of the date-cutoff cleaner's input can look like
\* (createTime, createdTs).
OldKinds ==
  { <<Empty, Absent>>, <<Bad, Absent>>,
    <<IsoZ(1, 1), Absent>>, <<IsoZ(2, 0), Absent>>, <<Absent, Num(1, 0)>> }

\* The CUTOFF_DATE settings considered.
Cutoffs == { IsoZ(1, 1), IsoZ(2, 0), IsoNaive(2, 0), Bad }

\* The memos a page can carry: n records named first+1 .. first+n.
PageMemos(scr, first, n) ==
  IF scr = "dup"
    THEN { [i \in 1..n |-> Memo(first + i, kd[i][1], kd[i][2], Absent)] :
             kd \in [1..n -> DupKinds] }
    ELSE { [i \in 1..n |-> Memo(first + i, "hi", kd[i][1], kd[i][2])] :
             kd \in [1..n -> OldKinds] }

\* A response of the list endpoint.  status 200 carries memos and a token
\* (0: none); "exception" is a network-level failure of the request.
Response(status, ms, token) == [status |-> status, memos |-> ms, token |-> token]

\* Every response the service can give to request number page: a page of
\* records it still holds, with a token only when it has a further page,
\* or a failure.
Responses(scr, have, page) ==
  { Response("200", ms, tok) :
      ms \in UNION { PageMemos(scr, have, n) : n \in 0..(MaxMemos - have) },
      tok \in IF page < MaxPages THEN {0, page} ELSE {0} }
  \cup { Response(s, <<>>, 0) : s \in {"400", "500", "exception"} }

(* ----------------------- the scraper's posts ---------------------------- *)
\* What scrape_x reads from one visible article element when the for loop
\* reaches it.  "raises" stands for an element whose inspection raises (a
\* detached node, a timeout); an element without text has text "".
Tweet(txt, ts, n, video, raises) ==
  [text |-> txt, timestamp |-> ts, images |-> n, video |-> video,
   raises |-> raises]

\* The posts of the profile: one with a date, an image and a video, one
\* plain, one with a date and a video, one with images only; then an
\* element without text and an element that raises.
TweetKinds ==
  { Tweet("a", TRUE, 1, TRUE, FALSE),
    Tweet("b", FALSE, 0, FALSE, FALSE),
    Tweet("c", TRUE, 0, TRUE, FALSE),
    Tweet("d", FALSE, MaxImages, FALSE, FALSE),
    Tweet("", FALSE, 0, FALSE, FALSE),
    Tweet("a", TRUE, 0, FALSE, TRUE) }

\* md5(f"{text}{timestamp}{len(images)}{bool(video_url)}"): the digest of
\* the four fields written one after the other; md5 is taken to be
\* injective on these strings.
signature(tw) == <<tw.text, tw.timestamp, tw.images, tw.video>>

Signatures == { signature(tw) : tw \in TweetKinds }

(* ------------------------------ state ---------------------------------- *)
VARIABLES
  script,          \* which script runs: "dup", "old" or "scraper"
  DRY_RUN,         \* the DRY_RUN setting of the script
  CUTOFF_DATE,     \* the CUTOFF_DATE setting (date-cutoff cleaner)
  pc,              \* where the run is
  all_memos,       \* the fetcher's accumulated records
  page_token,      \* the fetcher's continuation token (0: none)
  page_count,      \* the fetcher's page counter
  received,        \* the responses the list endpoint has given, in order
  memos,           \* main's memos: what the fetcher returned
  duplicates,      \* find_duplicates' result: <<[key, memo_list]>>
  total_to_delete, \* find_duplicates' announced number of deletions
  memos_to_delete, \* the date-cutoff cleaner's deletion list
  confirm,         \* what the user typed at the prompt ("none": no prompt)
  idx,             \* the executor's outer loop position
  k,               \* the executor's position in the current memo_list
  deleted_count,
  failed_count,
  deleteRequests,  \* the DELETE requests sent to the service, in order
  output,          \* the messages printed that the claims read
  text,            \* create_memo's text argument
  timestamp,       \* create_memo's timestamp argument is given
  images,          \* create_memo's images argument: how many
  video_url,       \* create_memo's video_url argument is given
  memo_name,       \* create_memo's memo_name (0: no memo created)
  img,             \* create_memo's position in images
  apiLog,          \* the requests the running create_memo call has sent
  MAX_SCROLLS,     \* the MAX_SCROLLS setting of the scraper
  scroll_attempts, \* scrape_x's loop counter
  seen_tweets,     \* scrape_x's set of signatures
  tweets,          \* how many elements the current iteration's scan found
  tweet,           \* the position of the for loop in tweets
  found_new,       \* scrape_x's found_new flag
  scans,           \* how many times the loop body has scanned the page
  createCalls,     \* how often create_memo was called, per signature
  failedSigs,      \* the signatures whose memo could not be created
  seenAgain        \* the signatures the current iteration skipped as seen

vars == <<script, DRY_RUN, CUTOFF_DATE, pc, all_memos, page_token, page_count,
          received, memos, duplicates, total_to_delete, memos_to_delete,
          confirm, idx, k, deleted_count, failed_count, deleteRequests,
          output, text, timestamp, images, video_url, memo_name, img, apiLog,
          MAX_SCROLLS, scroll_attempts, seen_tweets, tweets, tweet, found_new,
          scans, createCalls, failedSigs, seenAgain>>

fetchVars == <<all_memos, page_token, page_count, received, memos>>
planVars == <<duplicates, total_to_delete, memos_to_delete>>
execVars == <<confirm, idx, k, deleted_count, failed_count, deleteRequests>>
configVars == <<script, DRY_RUN, CUTOFF_DATE>>
memoArgs == <<text, timestamp, images, video_url>>
memoVars == <<text, timestamp, images, video_url, memo_name, img, apiLog>>
scrollVars == <<MAX_SCROLLS, scroll_attempts, seen_tweets, tweets, tweet,
                found_new, scans, createCalls, failedSigs, seenAgain>>

Msg(txt, n) == [text |-> txt, n |-> n]

Init ==
  /\ script \in {"dup", "old", "scraper"}
  /\ DRY_RUN \in IF script = "scraper" THEN {FALSE} ELSE BOOLEAN
  /\ CUTOFF_DATE \in IF script = "old" THEN Cutoffs ELSE {Absent}
  /\ pc = IF script = "scraper" THEN "load" ELSE "start"
  /\ MAX_SCROLLS \in IF script = "scraper" THEN 0..MaxScrolls ELSE {0}
  /\ scroll_attempts = 0
  /\ seen_tweets = {}
  /\ tweets = 0
  /\ tweet = 0
  /\ found_new = FALSE
  /\ scans = 0
  /\ createCalls = [sig \in Signatures |-> 0]
  /\ failedSigs = {}
  /\ seenAgain = {}
  /\ text = ""
  /\ timestamp = FALSE
  /\ images = 0
  /\ video_url = FALSE
  /\ memo_name = 0
  /\ img = 0
  /\ apiLog = <<>>
  /\ all_memos = <<>>
  /\ page_token = 0
  /\ page_count = 0
  /\ received = <<>>
  /\ memos = <<>>
  /\ duplicates = <<>>
  /\ total_to_delete = 0
  /\ memos_to_delete = <<>>
  /\ confirm = "none"
  /\ idx = 0
  /\ k = 0
  /\ deleted_count = 0
  /\ failed_count = 0
  /\ deleteRequests = <<>>
  /\ output = <<>>

(* --------------------- main, up to the fetch --------------------------- *)
\* delete_old_memos.main parses CUTOFF_DATE first and returns when it is
\* invalid; delete_memos_duplicates.main goes straight to the fetch.
MainStart ==
  /\ pc = "start"
  /\ script \in {"dup", "old"}
  /\ IF script = "old" /\ ~fromisoformat(CUTOFF_DATE).ok
       THEN /\ pc' = "done"
            /\ output' = Append(output, Msg("Invalid cutoff date format", 0))
       ELSE /\ pc' = "fetch"
            /\ output' = output
  /\ UNCHANGED <<configVars, scrollVars, memoVars, fetchVars, planVars, execVars>>

(* ------------------------------ fetchers ------------------------------- *)
\* fetch_all_memos with `continue` in place of `break` on a 400.
PageActionDup_ContinueOn400(resp) ==
  CASE resp.status = "400" -> "continue"
    [] resp.status # "200" -> "raise"
    [] resp.memos = <<>> -> "break"
    [] resp.token = 0 -> "break"
    [] OTHER -> "continue"

\* fetch_all_memos without the `if not memos: break` check.
PageActionDup_NoEmptyCheck(resp) ==
  CASE resp.status = "400" -> "break"
    [] resp.status # "200" -> "raise"
    [] resp.token = 0 -> "break"
    [] OTHER -> "continue"

\* What one iteration of fetch_all_memos' loop does with a response:
\* "break" on a 400 (taken as the end of the results) and on a page
\* without memos, "raise" on any other failure, and for a page with memos
\* "continue" when it carries a token, "break" when it does not.
PageActionDup(resp) ==
  CASE resp.status = "400" -> "break"
    [] resp.status # "200" -> "raise"
    [] resp.memos = <<>> -> "break"
    [] resp.token = 0 -> "break"
    [] OTHER -> "continue"

\* What one iteration of get_all_memos' loop does with a response: a 200
\* page is kept and the loop goes on when it carries a token; any other
\* status and any exception end the loop.
PageActionOld(resp) ==
  CASE resp.status # "200" -> "failed"
    [] resp.token = 0 -> "break"
    [] OTHER -> "continue"

\* fetch_all_memos returning [] whenever the fetch raised.
PartialResult_Discard(fetched) == <<>>

\* fetch_all_memos' return in its except branch.
PartialResult(fetched) == IF fetched # <<>> THEN fetched ELSE <<>>

\* One iteration of fetch_all_memos' loop, with the return that follows
\* when the loop ends or the request raises.
FetchPageDup ==
  /\ pc = "fetch"
  /\ script = "dup"
  /\ \E resp \in Responses("dup", Len(all_memos), page_count + 1) :
       LET action == PageActionDup(resp)
           kept == IF resp.status = "200" THEN all_memos \o resp.memos
                   ELSE all_memos
       IN /\ page_count' = page_count + 1
          /\ received' = Append(received, resp)
          /\ all_memos' = kept
          /\ page_token' = IF resp.status = "200" /\ resp.memos # <<>>
                             THEN resp.token ELSE page_token
          /\ CASE action = "continue" ->
                    /\ memos' = memos
                    /\ pc' = "fetch"
                    /\ output' = output
               [] action = "break" ->
                    /\ memos' = kept
                    /\ pc' = "main"
                    /\ output' = Append(output,
                                        Msg("Total memos fetched", Len(kept)))
               [] OTHER ->
                    /\ memos' = PartialResult(kept)
                    /\ pc' = "main"
                    /\ output' = Append(output, Msg("Error fetching memos", 0))
  /\ UNCHANGED <<configVars, scrollVars, memoVars, planVars, execVars>>

\* One iteration of get_all_memos' loop, with the return that follows when
\* the loop ends.
FetchPageOld ==
  /\ pc = "fetch"
  /\ script = "old"
  /\ \E resp \in Responses("old", Len(all_memos), page_count + 1) :
       LET action == PageActionOld(resp)
           kept == IF resp.status = "200" THEN all_memos \o resp.memos
                   ELSE all_memos
       IN /\ page_count' = page_count + 1
          /\ received' = Append(received, resp)
          /\ all_memos' = kept
          /\ page_token' = IF resp.status = "200" THEN resp.token
                           ELSE page_token
          /\ CASE action = "continue" ->
                    /\ memos' = memos
                    /\ pc' = "fetch"
                    /\ output' = output
               [] action = "break" ->
                    /\ memos' = kept
                    /\ pc' = "main"
                    /\ output' = Append(output,
                                        Msg("Fetched total memos", Len(kept)))
               [] OTHER ->
                    /\ memos' = kept
                    /\ pc' = "main"
                    /\ output' = Append(Append(output,
                                   Msg("Failed to fetch memos", 0)),
                                   Msg("Fetched total memos", Len(kept)))
  /\ UNCHANGED <<configVars, scrollVars, memoVars, planVars, execVars>>

(* ------------------ duplicate policy: find_duplicates ------------------ *)
\* extract_date: "unknown" for a missing, empty or unparseable timestamp.
extract_date(timestamp_str) ==
  IF ~Truthy(timestamp_str) THEN "unknown"
  ELSE IF ~fromisoformat(timestamp_str).ok THEN "unknown"
  ELSE strftime(fromisoformat(timestamp_str))

\* f"{content_hash}_{date}"
composite_key(memo) == <<md5(memo.content), extract_date(memo.createTime)>>

\* The keys of content_date_groups in insertion order: one per memo with
\* non-empty content, at the first memo that has it.
RECURSIVE GroupKeys(_, _)
GroupKeys(ms, seen) ==
  IF ms = <<>> THEN <<>>
  ELSE LET m == Head(ms)
           key == composite_key(m)
       IN IF m.content = "" \/ key \in seen
            THEN GroupKeys(Tail(ms), seen)
            ELSE <<key>> \o GroupKeys(Tail(ms), seen \cup {key})

\* content_date_groups[key]: the memos with that key, in fetch order.
GroupOf(ms, key) ==
  SelectSeq(ms, LAMBDA m : m.content # "" /\ composite_key(m) = key)

\* content_date_groups as a sequence of [key, memo_list].
content_date_groups(ms) ==
  LET keys == GroupKeys(ms, {})
  IN [i \in 1..Len(keys) |-> [key |-> keys[i], memo_list |-> GroupOf(ms, keys[i])]]

\* The filter of find_duplicates: only groups with more than one memo.
IsDuplicateGroup(g) == Len(g.memo_list) > 1

find_duplicates(ms) == SelectSeq(content_date_groups(ms), IsDuplicateGroup)

RECURSIVE SumExtra(_)
SumExtra(groups) ==
  IF groups = <<>> THEN 0
  ELSE (Len(Head(groups).memo_list) - 1) + SumExtra(Tail(groups))

\* delete_duplicates without the sort: the first fetched copy is kept.
SortByCreateTime_Unsorted(memo_list) == memo_list

\* memo_list.sort(key=lambda x: x.get("createTime", "")): a stable sort on
\* the createTime strings.
RECURSIVE InsertByCreateTime(_, _)
InsertByCreateTime(sorted, m) ==
  IF sorted = <<>> THEN <<m>>
  ELSE IF StrLeq(Head(sorted).createTime, m.createTime)
    THEN <<Head(sorted)>> \o InsertByCreateTime(Tail(sorted), m)
    ELSE <<m>> \o sorted
RECURSIVE SortFrom(_, _)
SortFrom(rest, sorted) ==
  IF rest = <<>> THEN sorted
  ELSE SortFrom(Tail(rest), InsertByCreateTime(sorted, Head(rest)))
SortByCreateTime(memo_list) == SortFrom(memo_list, <<>>)

\* find_duplicates shows the first display_limit groups in detail.
display_limit == 15

\* The "Will keep: <name> (oldest)" lines find_duplicates prints: for each
\* group shown, memo_list[0] of the group as it was built, in fetch order.
WillKeep(found) ==
  [i \in 1..(IF Len(found) < display_limit THEN Len(found) ELSE display_limit)
     |-> Msg("Will keep", found[i].memo_list[1].name)]

\* main of the duplicate cleaner after the fetch: the empty check,
\* find_duplicates, and the entry of delete_duplicates up to the prompt.
FindDuplicates ==
  /\ pc = "main"
  /\ script = "dup"
  /\ IF memos = <<>>
       THEN /\ pc' = "done"
            /\ output' = Append(output, Msg("No memos fetched", 0))
            /\ UNCHANGED <<duplicates, total_to_delete, idx, k>>
       ELSE LET found == find_duplicates(memos)
            IN /\ duplicates' = found
               /\ total_to_delete' = SumExtra(found)
               /\ IF found = <<>>
                    THEN /\ pc' = "done"
                         /\ output' = Append(output, Msg("No duplicates found", 0))
                         /\ UNCHANGED <<idx, k>>
                    ELSE /\ pc' = IF DRY_RUN THEN "delete" ELSE "confirm"
                         /\ output' = Append(output \o WillKeep(found),
                                Msg("Total duplicates to delete", SumExtra(found)))
                         /\ idx' = 1
                         /\ k' = 2
  /\ UNCHANGED <<configVars, scrollVars, memoVars, fetchVars, memos_to_delete, confirm,
                 deleted_count, failed_count, deleteRequests>>

(* ----------------------- the confirmation prompt ----------------------- *)
\* What the user can type; "eof" is a closed standard input.
Answers == {"yes", "YES", "no", "", "eof"}
lower(answer) == IF answer = "YES" THEN "yes" ELSE answer

\* confirm = input(...); if confirm.lower() != "yes": return
Confirmed(answer) == lower(answer) = "yes"

ConfirmPrompt ==
  /\ pc = "confirm"
  /\ \E answer \in Answers :
       /\ confirm' = answer
       /\ IF answer = "eof"
            THEN /\ pc' = "done"
                 /\ output' = Append(output, Msg("EOFError", 0))
            ELSE IF Confirmed(answer)
              THEN /\ pc' = "delete"
                   /\ output' = output
              ELSE /\ pc' = "done"
                   /\ output' = Append(output, Msg("Deletion cancelled", 0))
  /\ UNCHANGED <<configVars, scrollVars, memoVars, fetchVars, planVars, idx, k, deleted_count,
                 failed_count, deleteRequests>>

(* ------------------------ the delete requests --------------------------- *)
\* What a DELETE request can end in: a success status, an error status, or
\* an exception raised by the request (timeout, connection error).
DeleteOutcomes == {"200", "500", "exception"}

\* An executor that sends the request whatever DRY_RUN says.
SendsDelete_Always(dry) == TRUE

\* An executor whose except clause catches HTTP errors only.
DeleteFailureCaught_HttpErrorOnly(outcome) == outcome # "exception"

\* if DRY_RUN: count only; else: send the request
SendsDelete(dry) == ~dry

\* delete_duplicates: raise_for_status() passes; delete_memo: status == 200
DeleteSucceeded(outcome) == outcome = "200"

\* except Exception (delete_duplicates) and delete_memo's except Exception
\* with return False: every failure of a request is caught.
DeleteFailureCaught(outcome) == TRUE

\* The bookkeeping both executors do around one planned deletion.
DeleteOne(name, after) ==
  IF ~SendsDelete(DRY_RUN)
    THEN /\ deleted_count' = deleted_count + 1
         /\ UNCHANGED <<failed_count, deleteRequests>>
         /\ pc' = after
         /\ output' = Append(output, Msg("Would delete", name))
    ELSE \E outcome \in DeleteOutcomes :
           /\ deleteRequests' = Append(deleteRequests, name)
           /\ IF DeleteSucceeded(outcome)
                THEN /\ deleted_count' = deleted_count + 1
                     /\ failed_count' = failed_count
                     /\ pc' = after
                     /\ output' = Append(output, Msg("Deleted", name))
                ELSE IF DeleteFailureCaught(outcome)
                  THEN /\ deleted_count' = deleted_count
                       /\ failed_count' = failed_count + 1
                       /\ pc' = after
                       /\ output' = Append(output, Msg("Failed", name))
                  ELSE /\ UNCHANGED <<deleted_count, failed_count>>
                       /\ pc' = "done"
                       /\ output' = Append(output, Msg("Traceback", name))

\* One iteration of delete_duplicates' inner loop; entering a group sorts
\* its memo_list in place first.
DeleteStepDup ==
  /\ pc = "delete"
  /\ script = "dup"
  /\ LET memo_list == IF k = 2
                        THEN SortByCreateTime(duplicates[idx].memo_list)
                        ELSE duplicates[idx].memo_list
         lastOfGroup == k = Len(memo_list)
         lastGroup == idx = Len(duplicates)
     IN /\ duplicates' = [duplicates EXCEPT ![idx].memo_list = memo_list]
        /\ idx' = IF lastOfGroup THEN idx + 1 ELSE idx
        /\ k' = IF lastOfGroup THEN 2 ELSE k + 1
        /\ DeleteOne(memo_list[k].name,
                     IF lastOfGroup /\ lastGroup THEN "summary" ELSE "delete")
  /\ UNCHANGED <<configVars, scrollVars, memoVars, fetchVars, total_to_delete, memos_to_delete,
                 confirm>>

(* ------------------ date-cutoff policy: main's filter ------------------- *)
\* memo.get("createTime") or memo.get("createdTs")
create_time(memo) ==
  IF Truthy(memo.createTime) THEN memo.createTime ELSE memo.createdTs

\* The datetime main parses: fromisoformat for a string, fromtimestamp
\* for a number.
memo_dt(ct) == IF ct.kind = "num" THEN fromtimestamp(ct) ELSE fromisoformat(ct)

\* A filter that takes a missing timestamp for the oldest possible one.
BeforeCutoff_MissingAsOldest(memo, cutoff_dt) ==
  LET ct == create_time(memo)
  IN \/ ~Truthy(ct)
     \/ /\ memo_dt(ct).ok
        /\ DtComparable(memo_dt(ct), cutoff_dt)
        /\ DtLess(memo_dt(ct), cutoff_dt)

\* Lines 112-135 for one memo: TRUE when the memo is appended to
\* memos_to_delete.  A missing value is skipped; a parse error and the
\* TypeError of comparing a naive with an aware datetime are caught and
\* the memo skipped.
BeforeCutoff(memo, cutoff_dt) ==
  LET ct == create_time(memo)
  IN /\ Truthy(ct)
     /\ memo_dt(ct).ok
     /\ DtComparable(memo_dt(ct), cutoff_dt)
     /\ DtLess(memo_dt(ct), cutoff_dt)

ToDelete(memo) ==
  [name |-> memo.name, d |-> memo_dt(create_time(memo)).d,
   h |-> memo_dt(create_time(memo)).h]

FilterOld(ms, cutoff_dt) ==
  LET kept == SelectSeq(ms, LAMBDA m : BeforeCutoff(m, cutoff_dt))
  IN [i \in 1..Len(kept) |-> ToDelete(kept[i])]

\* main of the date-cutoff cleaner after the fetch: the empty check, the
\* filter, the summary of the plan, and the entry of the delete loop.
ClassifyOld ==
  /\ pc = "main"
  /\ script = "old"
  /\ IF memos = <<>>
       THEN /\ pc' = "done"
            /\ output' = Append(output, Msg("No memos found", 0))
            /\ UNCHANGED <<memos_to_delete, idx>>
       ELSE LET plan == FilterOld(memos, fromisoformat(CUTOFF_DATE))
            IN /\ memos_to_delete' = plan
               /\ IF plan = <<>>
                    THEN /\ pc' = "done"
                         /\ output' = Append(Append(output,
                                Msg("Found memos to delete", 0)),
                                Msg("No memos to delete", 0))
                         /\ idx' = idx
                    ELSE /\ pc' = "delete"
                         /\ output' = Append(output,
                                Msg("Found memos to delete", Len(plan)))
                         /\ idx' = 1
  /\ UNCHANGED <<configVars, scrollVars, memoVars, fetchVars, duplicates, total_to_delete, confirm,
                 k, deleted_count, failed_count, deleteRequests>>

\* A delete loop that goes back to the fetcher after each deletion.
DeleteStepOld_Refetch ==
  /\ pc = "delete"
  /\ script = "old"
  /\ idx' = idx + 1
  /\ DeleteOne(memos_to_delete[idx].name,
               IF idx = Len(memos_to_delete) THEN "summary" ELSE "fetch")
  /\ UNCHANGED <<configVars, scrollVars, memoVars, fetchVars, planVars, confirm, k>>

\* One iteration of main's delete loop.
DeleteStepOld ==
  /\ pc = "delete"
  /\ script = "old"
  /\ idx' = idx + 1
  /\ DeleteOne(memos_to_delete[idx].name,
               IF idx = Len(memos_to_delete) THEN "summary" ELSE "delete")
  /\ UNCHANGED <<configVars, scrollVars, memoVars, fetchVars, planVars, confirm, k>>

(* ------------------------------ summary --------------------------------- *)
\* The final summary of either cleaner.
Summary ==
  /\ pc = "summary"
  /\ pc' = "done"
  /\ output' =
       IF DRY_RUN
         THEN Append(output, Msg("Summary: would delete", deleted_count))
         ELSE IF failed_count > 0
           THEN Append(Append(output, Msg("Summary: deleted", deleted_count)),
                       Msg("Summary: failed", failed_count))
           ELSE Append(output, Msg("Summary: deleted", deleted_count))
  /\ UNCHANGED <<configVars, scrollVars, memoVars, fetchVars, planVars, execVars>>

(* ------------------- the scraper: scrape_x ----------------------------- *)
\* A scraper that does not remember the signature of a post it handled.
SeenAfter_Forget(seen, sig) == seen

\* seen_tweets.add(sig)
SeenAfter(seen, sig) == seen \cup {sig}

\* A loop that breaks when an iteration found nothing new.
NextAfterScan_Break(found) == IF found THEN "scroll" ELSE "finished"

\* Lines 393-399: "if not found_new" only prints; the loop scrolls either
\* way.
NextAfterScan(found) == "scroll"

\* page.goto and the wait for the first article element; on a timeout
\* scrape_x takes a screenshot and returns.
LoadProfile ==
  /\ pc = "load"
  /\ \E loaded \in BOOLEAN :
       IF loaded
         THEN /\ pc' = "scroll_loop"
              /\ output' = Append(output, Msg("Tweets loaded", 0))
         ELSE /\ pc' = "load_failed"
              /\ output' = Append(output, Msg("Failed to load tweets", 0))
  /\ UNCHANGED <<configVars, scrollVars, fetchVars, planVars, execVars,
                 memoVars>>

\* The while test and, when it holds, the scan of the visible elements;
\* when it fails, the final message.
ScanTweets ==
  /\ pc = "scroll_loop"
  /\ IF scroll_attempts < MAX_SCROLLS
       THEN /\ tweets' \in 0..MaxVisible
            /\ tweet' = 1
            /\ found_new' = FALSE
            /\ scans' = scans + 1
            /\ seenAgain' = {}
            /\ pc' = "tweet"
            /\ output' = output
       ELSE /\ pc' = "finished"
            /\ output' = Append(output, Msg("Finished", Cardinality(seen_tweets)))
            /\ UNCHANGED <<tweets, tweet, found_new, scans, seenAgain>>
  /\ UNCHANGED <<configVars, fetchVars, planVars, execVars, memoVars,
                 MAX_SCROLLS, scroll_attempts, seen_tweets, createCalls,
                 failedSigs>>

\* The body of the for loop for one element: an exception is caught and
\* the element skipped; an element without text is skipped; a signature
\* already seen is skipped; a new one is added to seen_tweets and
\* create_memo is called.
ProcessTweet ==
  /\ pc = "tweet"
  /\ tweet <= tweets
  /\ \E tw \in TweetKinds :
     LET sig == signature(tw)
     IN IF tw.raises \/ tw.text = "" \/ sig \in seen_tweets
          THEN /\ tweet' = tweet + 1
               /\ seenAgain' = IF ~tw.raises /\ tw.text # ""
                                 THEN seenAgain \cup {sig} ELSE seenAgain
               /\ output' = IF tw.raises
                               THEN Append(output, Msg("Error processing tweet", 0))
                               ELSE output
               /\ UNCHANGED <<pc, seen_tweets, found_new, createCalls,
                              memoVars>>
          ELSE /\ seen_tweets' = SeenAfter(seen_tweets, sig)
               /\ found_new' = TRUE
               /\ createCalls' = [createCalls EXCEPT ![sig] = @ + 1]
               /\ text' = tw.text
               /\ timestamp' = tw.timestamp
               /\ images' = tw.images
               /\ video_url' = tw.video
               /\ memo_name' = 0
               /\ img' = 0
               /\ apiLog' = <<>>
               /\ output' = <<Msg("New", 0)>>
               /\ pc' = "create_memo"
               /\ tweet' = tweet
               /\ seenAgain' = seenAgain
  /\ UNCHANGED <<configVars, fetchVars, planVars, execVars, MAX_SCROLLS,
                 scroll_attempts, tweets, scans, failedSigs>>

\* create_memo returns to the for loop; its locals are gone.
CreateMemoReturn ==
  /\ pc = "done"
  /\ script = "scraper"
  /\ failedSigs' = IF memo_name = 0
                     THEN failedSigs \cup {<<text, timestamp, images, video_url>>}
                     ELSE failedSigs
  /\ tweet' = tweet + 1
  /\ pc' = "tweet"
  /\ text' = ""
  /\ timestamp' = FALSE
  /\ images' = 0
  /\ video_url' = FALSE
  /\ memo_name' = 0
  /\ img' = 0
  /\ apiLog' = <<>>
  /\ output' = <<>>
  /\ UNCHANGED <<configVars, fetchVars, planVars, execVars, MAX_SCROLLS,
                 scroll_attempts, seen_tweets, tweets, found_new, scans,
                 createCalls, seenAgain>>

\* The end of the for loop: the scroll and the increment of the counter.
ScrollDown ==
  /\ pc = "tweet"
  /\ tweet > tweets
  /\ IF NextAfterScan(found_new) = "scroll"
       THEN /\ scroll_attempts' = scroll_attempts + 1
            /\ pc' = "scroll_loop"
       ELSE /\ scroll_attempts' = scroll_attempts
            /\ pc' = "finished"
  /\ output' = IF found_new THEN output
               ELSE Append(output, Msg("No new tweets", 0))
  /\ UNCHANGED <<configVars, fetchVars, planVars, execVars, memoVars,
                 MAX_SCROLLS, seen_tweets, tweets, tweet, found_new, scans,
                 createCalls, failedSigs, seenAgain>>

(* ------------------- the scraper: create_memo -------------------------- *)
\* What a request to the notes service can end in: status 200, an error
\* status, or an exception raised by requests (timeout, connection error).
RequestOutcomes == {"200", "500", "exception"}

Call(method, path, outcome) ==
  [method |-> method, path |-> path, outcome |-> outcome]

\* Where create_memo goes after the backdate block: the image loop, the
\* video block, or its end.
AfterBackdate ==
  IF images > 0 THEN "upload_image"
  ELSE IF video_url THEN "video"
  ELSE "done"

\* create_memo's POST /api/v1/memos with raise_for_status: an error status
\* and an exception both end in the except clause for RequestException.
CreateMemoPost ==
  /\ pc = "create_memo"
  /\ \E outcome \in RequestOutcomes :
       /\ apiLog' = Append(apiLog, Call("POST", "memos", outcome))
       /\ IF outcome = "200"
            THEN /\ memo_name' = 1
                 /\ output' = Append(output, Msg("Memo created", 1))
                 /\ pc' = IF timestamp THEN "backdate" ELSE AfterBackdate
            ELSE /\ memo_name' = memo_name
                 /\ output' = Append(output, Msg("Failed to create memo", 0))
                 /\ pc' = "done"
  /\ UNCHANGED <<configVars, scrollVars, fetchVars, planVars, execVars, memoArgs, img>>

\* The PATCH that backdates the memo.  A status other than 200 is printed
\* as a timestamp update failure and create_memo goes on; an exception
\* raised by requests.patch leaves the try block for the same except
\* clause as a failed creation.
BackdateMemo ==
  /\ pc = "backdate"
  /\ \E outcome \in RequestOutcomes :
       /\ apiLog' = Append(apiLog, Call("PATCH", "memo", outcome))
       /\ CASE outcome = "200" ->
                 /\ output' = Append(output, Msg("Timestamp updated", memo_name))
                 /\ pc' = AfterBackdate
            [] outcome = "exception" ->
                 /\ output' = Append(output, Msg("Failed to create memo", 0))
                 /\ pc' = "done"
            [] OTHER ->
                 /\ output' = Append(output,
                                     Msg("Timestamp update failed", memo_name))
                 /\ pc' = AfterBackdate
  /\ UNCHANGED <<configVars, scrollVars, fetchVars, planVars, execVars, memoArgs,
                 memo_name, img>>

\* One iteration of the image loop: upload_image_to_memos downloads the
\* image and posts it as an attachment; it catches every exception and
\* returns None.
UploadImage ==
  /\ pc = "upload_image"
  /\ img' = img + 1
  /\ \E outcome \in RequestOutcomes \cup {"download failed"} :
       /\ apiLog' = IF outcome = "download failed" THEN apiLog
                    ELSE Append(apiLog, Call("POST", "attachments", outcome))
       /\ output' = IF outcome = "200"
                      THEN Append(output, Msg("Attached", img + 1))
                      ELSE Append(output, Msg("Failed to upload image", img + 1))
  /\ pc' = IF img + 1 < images THEN "upload_image"
           ELSE IF video_url THEN "video"
           ELSE "done"
  /\ UNCHANGED <<configVars, scrollVars, fetchVars, planVars, execVars, memoArgs,
                 memo_name>>

\* The video block: download_video_with_ytdlp, then upload_video_to_memos
\* when a file was downloaded; both catch every exception.
UploadVideo ==
  /\ pc = "video"
  /\ \E outcome \in RequestOutcomes \cup {"download failed"} :
       /\ apiLog' = IF outcome = "download failed" THEN apiLog
                    ELSE Append(apiLog, Call("POST", "attachments", outcome))
       /\ output' = CASE outcome = "200" -> Append(output, Msg("Video uploaded", 0))
                      [] outcome = "download failed" ->
                           Append(output, Msg("Video download failed", 0))
                      [] OTHER -> Append(output, Msg("Failed to upload video", 0))
  /\ pc' = "done"
  /\ UNCHANGED <<configVars, scrollVars, fetchVars, planVars, execVars, memoArgs,
                 memo_name, img>>

(* --------------------------- specification ------------------------------ *)
Next ==
  \/ MainStart
  \/ FetchPageDup
  \/ FetchPageOld
  \/ FindDuplicates
  \/ ConfirmPrompt
  \/ DeleteStepDup
  \/ ClassifyOld
  \/ DeleteStepOld
  \/ Summary
  \/ CreateMemoPost
  \/ BackdateMemo
  \/ UploadImage
  \/ UploadVideo
  \/ LoadProfile
  \/ ScanTweets
  \/ ProcessTweet
  \/ CreateMemoReturn
  \/ ScrollDown

Spec == Init /\ [][Next]_vars

\* Each script is one thread of control that runs to its end.
FairSpec == Spec /\ WF_vars(Next)

(* ======================= properties of the runs ======================== *)
Range(seq) == { seq[i] : i \in 1..Len(seq) }
Texts == { output[i].text : i \in 1..Len(output) }
Printed(txt) == txt \in Texts
PrintedWith(txt, n) == \E i \in 1..Len(output) : output[i] = Msg(txt, n)

\* The records an executor has acted on: deleted, failed to delete, or
\* (dry run) announced as would-be deleted.
ActedOn ==
  { output[i].n : i \in { j \in 1..Len(output) :
      output[j].text \in {"Would delete", "Deleted", "Failed"} } }

\* The fetched record of a given name.
Fetched == Range(all_memos)

(* ---- C1 ---- *)
\* C1: with dry-run off, no delete request is sent before the user has
\* typed an affirmative confirmation; after a negative or absent
\* confirmation no delete request is ever sent.  Stated for both deleting
\* scripts.
C1_NoDeleteWithoutConfirmation ==
  (~DRY_RUN /\ deleteRequests # <<>>) => confirm \in {"yes", "YES"}

(* ---- C2 ---- *)
\* The creation timestamp is missing: neither createTime nor createdTs is
\* present with a value.
TsMissing(m) ==
  /\ m.createTime.kind \in {"absent", "empty"}
  /\ m.createdTs.kind \in {"absent", "empty"}

\* The creation timestamp cannot be parsed: the value the script reads is a
\* string that is no ISO timestamp.
TsUnparseable(m) == m.createTime.kind = "bad"

\* C2: under the date-cutoff policy a fetched record whose creation
\* timestamp is missing or unparseable is never in the deletion list and
\* never the target of a delete request (nor of a dry-run announcement),
\* whatever the cutoff.
C2_AmbiguousTimestampNeverDeleted ==
  script = "old" =>
    \A m \in Fetched :
      (TsMissing(m) \/ TsUnparseable(m)) =>
        /\ \A i \in 1..Len(memos_to_delete) : memos_to_delete[i].name # m.name
        /\ m.name \notin Range(deleteRequests)
        /\ m.name \notin ActedOn

\* A live run of the date-cutoff cleaner that fetched a record without a
\* timestamp and one with an unparseable timestamp, and deleted another.
C2_Witness ==
  /\ script = "old"
  /\ ~DRY_RUN
  /\ pc = "done"
  /\ \E m \in Fetched : TsMissing(m)
  /\ \E m \in Fetched : TsUnparseable(m)
  /\ deleteRequests # <<>>

(* ---- C3 ---- *)
\* The instant a parseable creation timestamp denotes, as <<day, hour>>.
HasInstant(m) == create_time(m).kind \in {"iso", "num"}
InstantBefore(m, cutoff) ==
  \/ create_time(m).d < cutoff.d
  \/ (create_time(m).d = cutoff.d /\ create_time(m).h < cutoff.h)

\* The date-cutoff cleaner has built its deletion list.
OldClassified == script = "old" /\ Printed("Found memos to delete")

\* C3: once the date-cutoff cleaner has classified, a fetched record is in
\* the deletion list if and only if its creation timestamp parses and
\* denotes an instant strictly earlier than the cutoff.
C3_DeleteIffStrictlyBeforeCutoff ==
  OldClassified =>
    \A m \in Range(memos) :
      (\E i \in 1..Len(memos_to_delete) : memos_to_delete[i].name = m.name)
        <=> (HasInstant(m) /\ InstantBefore(m, CUTOFF_DATE))

(* ---- C4 ---- *)
\* Two records share the (content, calendar date) key; the date of a
\* record without a parseable createTime is the "unknown" one (day 0).
CalendarDay(m) == IF m.createTime.kind = "iso" THEN m.createTime.d ELSE 0
SameKey(a, b) == a.content = b.content /\ CalendarDay(a) = CalendarDay(b)

\* a is kept in preference to b: its createTime is smaller, or they tie
\* and a was fetched first (names number the records in fetch order).
KeptBefore(a, b) ==
  \/ ~StrLeq(b.createTime, a.createTime)
  \/ (StrLeq(a.createTime, b.createTime) /\ StrLeq(b.createTime, a.createTime)
      /\ a.name < b.name)

\* The records the duplicate policy of the claim deletes: every member of
\* a group of two or more except the one kept.
DuplicateOfAnother(m) ==
  \E o \in Range(memos) : o.name # m.name /\ SameKey(o, m) /\ KeptBefore(o, m)

\* The members of the groups find_duplicates returned.
InDuplicates ==
  UNION { { g.memo_list[i].name : i \in 1..Len(g.memo_list) } :
          g \in Range(duplicates) }

\* The duplicate cleaner ran to its end without the user cancelling.
DupRunComplete ==
  script = "dup" /\ pc = "done" /\ confirm \in {"none", "yes", "YES"}

\* C4 as claimed: in every group of two or more records sharing the
\* (content, calendar date) key the record with the minimal createTime
\* (first fetched on a tie) is kept and every other member is the target
\* of a delete action; a record sharing its key with no other record is
\* neither in the duplicate set nor deleted.
C4_Original ==
  /\ script = "dup" =>
       /\ \A n \in ActedOn \cup Range(deleteRequests) \cup InDuplicates :
            \E m \in Range(memos) :
              m.name = n /\ \E o \in Range(memos) : o.name # n /\ SameKey(o, m)
       /\ \A n \in ActedOn \cup Range(deleteRequests) :
            \E m \in Range(memos) : m.name = n /\ DuplicateOfAnother(m)
  /\ DupRunComplete =>
       ActedOn = { m.name : m \in { x \in Range(memos) : DuplicateOfAnother(x) } }

\* C4 as amended: the same, for the records with non-empty content;
\* records with empty content are never grouped and never deleted.
C4_DuplicatePolicy ==
  /\ script = "dup" =>
       /\ \A n \in ActedOn \cup Range(deleteRequests) \cup InDuplicates :
            \E m \in Range(memos) :
              /\ m.name = n
              /\ m.content # ""
              /\ \E o \in Range(memos) : o.name # n /\ SameKey(o, m)
       /\ \A n \in ActedOn \cup Range(deleteRequests) :
            \E m \in Range(memos) : m.name = n /\ DuplicateOfAnother(m)
  /\ DupRunComplete =>
       ActedOn = { m.name : m \in { x \in Range(memos) :
                                      x.content # "" /\ DuplicateOfAnother(x) } }

\* The scenario of the claim with the later copy fetched first: B('hi',
\* hour 1), A('hi', hour 0), C('bye', hour 0) on one day; the run kept A
\* and acted on B only.
C4_Witness ==
  /\ DupRunComplete
  /\ Len(memos) = 3
  /\ memos[1].content = "hi" /\ memos[1].createTime = IsoZ(1, 1)
  /\ memos[2].content = "hi" /\ memos[2].createTime = IsoZ(1, 0)
  /\ memos[3].content = "bye" /\ memos[3].createTime = IsoZ(1, 0)
  /\ ActedOn = {1}

(* ---- C5 ---- *)
\* The number of records planned for deletion, as each script announces it
\* before executing.
PlannedCount ==
  IF script = "dup" THEN total_to_delete ELSE Len(memos_to_delete)

\* C5: with DRY_RUN set no delete request is ever sent by either script,
\* and the count of the final summary equals the number of records
\* planned for deletion.
C5_DryRunSendsNothing ==
  DRY_RUN =>
    /\ deleteRequests = <<>>
    /\ failed_count = 0
    /\ \A i \in 1..Len(output) :
         output[i].text = "Summary: would delete" => output[i].n = PlannedCount
    /\ pc = "done" /\ PlannedCount > 0 => Printed("Summary: would delete")

\* A dry run that ended with two or more planned deletions reported.
C5_Witness ==
  /\ DRY_RUN
  /\ pc = "done"
  /\ PlannedCount >= 2
  /\ PrintedWith("Summary: would delete", PlannedCount)

(* ---- C6 ---- *)
\* The names planned for deletion, in a live run that reached its executor.
PlannedNames ==
  IF script = "dup"
    THEN { m.name : m \in { x \in Range(memos) :
                              x.content # "" /\ DuplicateOfAnother(x) } }
    ELSE { memos_to_delete[i].name : i \in 1..Len(memos_to_delete) }

NoRepeats(seq) == \A i, j \in 1..Len(seq) : seq[i] = seq[j] => i = j

\* The executor of a live run has started.
LiveExecuting ==
  /\ ~DRY_RUN
  /\ (pc \in {"delete", "summary"} \/ deleteRequests # <<>>
      \/ Printed("Summary: deleted"))

\* C6: in a live run that reached its executor every delete request goes
\* to a planned record, no record is requested twice, each request is
\* counted as succeeded or failed, and the run ends only after the
\* summary, with one request per planned record and succeeded + failed
\* equal to the number planned, whatever the requests' outcomes were.
C6_EveryPlannedDeleteAttempted ==
  LiveExecuting =>
    /\ Range(deleteRequests) \subseteq PlannedNames
    /\ NoRepeats(deleteRequests)
    /\ deleted_count + failed_count = Len(deleteRequests)
    /\ pc = "done" =>
         /\ Printed("Summary: deleted")
         /\ Range(deleteRequests) = PlannedNames
         /\ deleted_count + failed_count = PlannedCount

\* A live run that ended after a failed first request and a later
\* successful one.
C6_Witness ==
  /\ ~DRY_RUN
  /\ pc = "done"
  /\ Len(deleteRequests) >= 2
  /\ \E i, j \in 1..Len(output) :
       /\ i < j
       /\ output[i].text = "Failed"
       /\ output[j].text = "Deleted"
  /\ failed_count >= 1
  /\ deleted_count >= 1

(* ---- C7, C8, C9: the fetchers ---- *)
RECURSIVE ConcatPages(_)
ConcatPages(pages) ==
  IF pages = <<>> THEN <<>>
  ELSE Head(pages).memos \o ConcatPages(Tail(pages))

\* The responses before the last one received.
EarlierPages == SubSeq(received, 1, Len(received) - 1)
LastPage == received[Len(received)]

\* The fetcher has returned.
FetchReturned == pc \notin {"start", "fetch"} /\ received # <<>>

\* The classifier of the running script has run on main's memos.
Classified ==
  \/ Printed("Found memos to delete")
  \/ Printed("Total duplicates to delete")
  \/ Printed("No duplicates found")

\* The run went on from a fetch that returned records: it did not stop at
\* the "no memos" exit, and once it is over the classifier has run.
ProceedsWith(records) ==
  /\ memos = records
  /\ records # <<>> =>
       /\ ~Printed("No memos fetched")
       /\ ~Printed("No memos found")
       /\ pc = "done" => Classified

\* C7: when the request for page N fails (an exception or an error
\* status) after pages 1..N-1 succeeded, the fetcher returns exactly the
\* records of pages 1..N-1 in order, and the run goes on to classify and
\* execute on them.
C7_PartialFetchKept ==
  (FetchReturned /\ LastPage.status \in {"500", "exception"}) =>
    /\ \A i \in 1..Len(EarlierPages) : EarlierPages[i].status = "200"
    /\ ProceedsWith(ConcatPages(EarlierPages))

\* A live run whose second page request raised, and which deleted a record
\* of the first page afterwards.
C7_Witness ==
  /\ pc = "done"
  /\ Len(received) = 2
  /\ received[2].status = "exception"
  /\ memos # <<>>
  /\ deleteRequests # <<>>

\* C8: a 400 response ends the pagination: it is the last response
\* requested, the records of all earlier pages are returned, and the run
\* goes on to classify them as after a regular last page.
C8_BadRequestEndsPagination ==
  /\ \A i \in 1..Len(received) : received[i].status = "400" =>
       i = Len(received) /\ pc # "fetch"
  /\ (FetchReturned /\ LastPage.status = "400") =>
       /\ \A i \in 1..Len(EarlierPages) : EarlierPages[i].status = "200"
       /\ ProceedsWith(ConcatPages(EarlierPages))

\* A run whose second page request was answered 400 and which classified
\* the records of the first page and acted on one.
C8_Witness ==
  /\ pc = "done"
  /\ Len(received) = 2
  /\ received[2].status = "400"
  /\ memos # <<>>
  /\ Classified
  /\ ActedOn # {}

\* A page after which the claim has the fetcher go on: a success that
\* carries a token and is no "no more records" page.
ContinuesAsClaimed(resp) ==
  resp.status = "200" /\ resp.token # 0 /\ resp.memos # <<>>

\* A page after which each script's fetcher goes on.
ContinuesInScript(resp) ==
  /\ resp.status = "200"
  /\ resp.token # 0
  /\ script = "dup" => resp.memos # <<>>

\* C9 as claimed: a further page is requested exactly when the previous
\* page succeeded with a token and with records, and the fetcher returns
\* the in-order concatenation of the pages received.
C9_Original ==
  /\ \A i \in 1..Len(EarlierPages) : ContinuesAsClaimed(EarlierPages[i])
  /\ (pc = "fetch" /\ received # <<>>) => ContinuesAsClaimed(LastPage)
  /\ FetchReturned =>
       /\ ~ContinuesAsClaimed(LastPage)
       /\ memos = ConcatPages(received)

C9_Safety ==
  /\ pc = "fetch" => page_count < MaxPages
  /\ \A i \in 1..Len(EarlierPages) : ContinuesInScript(EarlierPages[i])
  /\ (pc = "fetch" /\ received # <<>>) => ContinuesInScript(LastPage)
  /\ FetchReturned =>
       /\ ~ContinuesInScript(LastPage)
       /\ memos = ConcatPages(received)
  /\ page_count = Len(received)

\* C9 as amended: a further page is requested exactly when the previous
\* page succeeded with a token and, in the duplicate cleaner only, with
\* records (the date-cutoff cleaner goes on after a page that has a token
\* and no records); the fetcher returns the in-order concatenation of the
\* pages received; and against a service with finitely many pages the
\* fetch loop of both scripts ends.
\* (every iteration of the loop is one more page request, the loop never
\* runs once the service's pages are used up, and it does end).
C9_Pagination ==
  /\ [](C9_Safety)
  /\ [][pc = "fetch" => page_count' = page_count + 1]_vars
  /\ <>(pc \notin {"start", "fetch"})

\* The date-cutoff cleaner's fetcher returned after a page with a token
\* and no records and a further page with a record.
C9_Witness ==
  /\ script = "old"
  /\ FetchReturned
  /\ Len(received) = 2
  /\ received[1].memos = <<>> /\ received[1].token # 0
  /\ received[2].status = "200" /\ received[2].memos # <<>>

\* The fetch phase of either cleaner alone.
FetchNext ==
  \/ MainStart
  \/ FetchPageDup
  \/ FetchPageOld

FetchSpec == Init /\ [][FetchNext]_vars /\ WF_vars(FetchNext)

(* ---- C10 ---- *)
\* The backdate request failed: a status other than 200 or an exception.
BackdateFailed ==
  \E i \in 1..Len(apiLog) :
    apiLog[i].method = "PATCH" /\ apiLog[i].outcome # "200"

\* C10: create_memo sends the backdate update only after the create
\* request succeeded; no request deletes or rolls back the created memo;
\* and a failed backdate (error status or exception) is reported as a
\* timestamp update failure, not as a failure to create the memo.
C10_BackdateAfterCreateNoRollback ==
  script = "scraper" =>
    /\ \A i \in 1..Len(apiLog) : apiLog[i].method = "PATCH" =>
         /\ i = 2
         /\ apiLog[1] = Call("POST", "memos", "200")
         /\ memo_name # 0
    /\ \A i \in 1..Len(apiLog) : apiLog[i].method # "DELETE"
    /\ deleteRequests = <<>>
    /\ BackdateFailed =>
         /\ memo_name # 0
         /\ Printed("Timestamp update failed")
         /\ ~Printed("Failed to create memo")

(* ---- C11 ---- *)
\* create_memo has returned.
CreateMemoReturned == script = "scraper" /\ pc = "done"

\* The reports printed for image number i, and for the video.
ImageReports(i) ==
  { j \in 1..Len(output) :
      output[j].text \in {"Attached", "Failed to upload image"} /\ output[j].n = i }
VideoReports ==
  { j \in 1..Len(output) :
      output[j].text \in {"Video uploaded", "Video download failed",
                          "Failed to upload video"} }

\* C11: for a memo that was created, create_memo attempts an upload for
\* every image and then for the video if there is one, whatever the
\* backdate step and the earlier uploads ended in; each attempt is reported
\* once, for its own attachment; and no upload failure deletes the memo or
\* is reported as a failure to create it.
C11_EveryAttachmentAttempted ==
  (script = "scraper" /\ memo_name # 0) =>
    /\ \A i \in 1..MaxImages :
         Cardinality(ImageReports(i)) = IF i <= img THEN 1 ELSE 0
    /\ Cardinality(VideoReports) <= 1
    /\ VideoReports # {} => (video_url /\ img = images)
    /\ \A i \in 1..Len(apiLog) : apiLog[i].method # "DELETE"
    /\ CreateMemoReturned =>
         /\ img = images
         /\ video_url => VideoReports # {}

(* ---- C12 ---- *)
\* The phases of a deleting run, in the order main goes through them.
PhaseRank(p) ==
  CASE p \in {"start", "fetch"} -> 1
    [] p = "main" -> 2
    [] p = "confirm" -> 3
    [] p = "delete" -> 4
    [] p = "summary" -> 5
    [] OTHER -> 6

\* The executor has acted on its first record: a delete request, or the
\* announcement that stands for it in a dry run.
ExecutionBegun == deleteRequests # <<>> \/ ActedOn # {}

\* The groups find_duplicates built, as key and set of member names.
GroupMembers(groups) ==
  [i \in 1..Len(groups) |->
     [key |-> groups[i].key,
      names |-> { groups[i].memo_list[j].name :
                    j \in 1..Len(groups[i].memo_list) }]]

\* Nothing is fetched and nothing classified in this step.  The order in
\* which delete_duplicates sorts a group's members is no part of it: that
\* sort runs inside the executor, group by group.
NoFetchNoClassify ==
  /\ received' = received
  /\ page_count' = page_count
  /\ all_memos' = all_memos
  /\ memos' = memos
  /\ memos_to_delete' = memos_to_delete
  /\ total_to_delete' = total_to_delete
  /\ GroupMembers(duplicates') = GroupMembers(duplicates)
  /\ pc' \notin {"start", "fetch", "main", "confirm"}

\* A step of a deleting run never goes back to an earlier phase, and once
\* the executor has begun it neither fetches nor classifies.
PhaseStep ==
  script \in {"dup", "old"} =>
    /\ PhaseRank(pc') >= PhaseRank(pc)
    /\ ExecutionBegun => NoFetchNoClassify

GroupNames(i) ==
  { duplicates[i].memo_list[j].name : j \in 1..Len(duplicates[i].memo_list) }

\* The record find_duplicates announced as "Will keep" for group i: the
\* i-th such line of the output.
AnnouncedKeep(i) ==
  SelectSeq(output, LAMBDA msg : msg.text = "Will keep")[i].n

\* The plan has been shown.
PlanShown == script = "dup" /\ Printed("Total duplicates to delete")

\* C13: for every duplicate group shown in the plan, the record announced
\* as "Will keep" is never deleted (nor announced as would-be deleted), and
\* once delete_duplicates has run, the records it acted on in the group
\* are exactly the group's other members, whatever the order in which the
\* members were fetched.
C13_AnnouncedKeepIsKept ==
  PlanShown =>
    \A i \in 1..Len(duplicates) :
      i <= display_limit =>
        /\ AnnouncedKeep(i) \in GroupNames(i)
        /\ AnnouncedKeep(i) \notin ActedOn \cup Range(deleteRequests)
        /\ (DupRunComplete /\ Printed("Summary: deleted")) =>
             ActedOn \cap GroupNames(i) = GroupNames(i) \ {AnnouncedKeep(i)}

(* ---- C14 ---- *)
\* The scraper alone: loading, the scroll loop, and create_memo.
ScrapeNext ==
  \/ LoadProfile
  \/ ScanTweets
  \/ ProcessTweet
  \/ CreateMemoPost
  \/ BackdateMemo
  \/ UploadImage
  \/ UploadVideo
  \/ CreateMemoReturn
  \/ ScrollDown

\* scrape_x is one thread of control that runs to its end.
ScrapeSpec == Init /\ [][ScrapeNext]_vars /\ WF_vars(ScrapeNext)

\* create_memo is running.
InCreateMemo ==
  script = "scraper"
    /\ pc \in {"create_memo", "backdate", "upload_image", "video", "done"}

\* C14: in one scraper run create_memo is called at most once per
\* signature, whatever posts the iterations show and however often a post
\* shows up again; the signature is in seen_tweets from the moment of the
\* call, so a post whose creation failed is not created again; and
\* seen_tweets only grows.
C14_CreateOncePerSignature ==
  /\ [](/\ \A sig \in Signatures :
             /\ createCalls[sig] <= 1
             /\ createCalls[sig] = 1 <=> sig \in seen_tweets
        /\ failedSigs \subseteq seen_tweets
        /\ InCreateMemo => <<text, timestamp, images, video_url>> \in seen_tweets)
  /\ [][seen_tweets \subseteq seen_tweets']_vars

\* The post "a" could not be created in the first iteration; the second
\* iteration found one element, this post again, and skipped it; the run
\* is over with one create_memo call for the post.
C14_Witness ==
  /\ pc = "finished"
  /\ scans = 2
  /\ tweets = 1
  /\ ~found_new
  /\ failedSigs = {<<"a", TRUE, 1, TRUE>>}
  /\ seenAgain = {<<"a", TRUE, 1, TRUE>>}
  /\ createCalls[<<"a", TRUE, 1, TRUE>>] = 1

(* ---- C15 ---- *)
\* The counters of the scroll loop: every scan is followed by its scroll,
\* and neither goes beyond MAX_SCROLLS.
ScrollCounters ==
  /\ scans <= MAX_SCROLLS
  /\ scroll_attempts <= scans
  /\ scans <= scroll_attempts + 1
  /\ pc = "scroll_loop" => scans = scroll_attempts
  /\ pc = "finished" => scans = MAX_SCROLLS /\ scroll_attempts = MAX_SCROLLS

\* C15: once the posts have loaded, the scroll loop performs exactly
\* MAX_SCROLLS scan-and-scroll iterations and then finishes, whether or
\* not an iteration found a new post, an element's processing raised, or
\* the creation of a memo failed.
C15_ExactlyMaxScrollsIterations ==
  /\ [](script = "scraper" => ScrollCounters)
  /\ (pc = "scroll_loop" ~> pc = "finished")

\* A run of two iterations that is over: the creation of a memo failed in
\* it, and its last iteration met an element whose processing raised and
\* found no new post.
C15_Witness ==
  /\ pc = "finished"
  /\ MAX_SCROLLS = 2
  /\ scans = 2
  /\ failedSigs # {}
  /\ Printed("Error processing tweet")
  /\ Printed("No new tweets")
====
